---- MODULE Spec2Model ----
(***************************************************************************)
(* Model of terminal-emulator/src/term/cell.rs: the grid Cell (colours,    *)
(* style flags, inline glyph buffer) and the occupied length of a Row.     *)
(*                                                                         *)
(* A char is its Unicode scalar value; the contents of a cell (an          *)
(* ArrayString<[u8; MAX_CELL_LEN]>) are the sequence of the chars stored,  *)
(* whose UTF-8 encoding must fit the MAX_CELL_LEN bytes of the buffer.     *)
(* Flags are the u16 bit patterns of the bitflags! block.                  *)
(***************************************************************************)
EXTENDS Integers, Sequences, FiniteSets

VARIABLES cell, row, last, panicked

vars == <<cell, row, last, panicked>>

(***************************************************************************)
(* Constants of cell.rs                                                    *)
(***************************************************************************)
MAX_ZEROWIDTH_CHARS == 5
MAX_CELL_LEN == 4 * (1 + MAX_ZEROWIDTH_CHARS)

INVERSE == 1
BOLD == 2
ITALIC == 4
UNDERLINE == 8
WRAPLINE == 16
WIDE_CHAR == 32
WIDE_CHAR_SPACER == 64
DIM == 128
\* mutant: the combined flag pairs DIM with the wrong neighbour bit
DIM_BOLD_typo == DIM + ITALIC

DIM_BOLD == 130
HIDDEN == 256
STRIKEOUT == 512

SingleFlags ==
    {INVERSE, BOLD, ITALIC, UNDERLINE, WRAPLINE, WIDE_CHAR, WIDE_CHAR_SPACER,
     DIM, HIDDEN, STRIKEOUT}

NamedFlags == SingleFlags \cup {DIM_BOLD}

\* ' ' and '\t', the two char literals of cell.rs
SPACE == 32
TAB == 9

\* Color::Named(NamedColor::Foreground), Color::Named(NamedColor::Background)
NamedForeground == [tag |-> "Named", name |-> "Foreground"]
NamedBackground == [tag |-> "Named", name |-> "Background"]

(***************************************************************************)
(* bitflags: the operations the Flags type gets from the macro             *)
(***************************************************************************)
RECURSIVE BitAnd(_, _)
BitAnd(a, b) ==
    IF a = 0 \/ b = 0 THEN 0
    ELSE (a % 2) * (b % 2) + 2 * BitAnd(a \div 2, b \div 2)

BitOr(a, b) == a + b - BitAnd(a, b)

FlagsEmpty == 0

FlagsContains(self, other) == BitAnd(self, other) = other

FlagsIntersects(self, other) == BitAnd(self, other) # 0

FlagsInsert(self, other) == BitOr(self, other)

FlagsRemove(self, other) == self - BitAnd(self, other)

(***************************************************************************)
(* ArrayString<[u8; MAX_CELL_LEN]>                                         *)
(***************************************************************************)
\* char::len_utf8
len_utf8(c) ==
    IF c < 128 THEN 1 ELSE IF c < 2048 THEN 2 ELSE IF c < 65536 THEN 3 ELSE 4

\* ArrayString::len: the bytes in use
RECURSIVE ByteLen(_)
ByteLen(s) == IF s = <<>> THEN 0 ELSE len_utf8(Head(s)) + ByteLen(Tail(s))

\* ArrayString::try_push: the char is appended when its encoding fits the
\* bytes that remain, and the string is left as it was otherwise
try_push(s, c) ==
    IF ByteLen(s) + len_utf8(c) <= MAX_CELL_LEN
    THEN [ok |-> TRUE, s |-> Append(s, c)]
    ELSE [ok |-> FALSE, s |-> s]

\* ArrayString::push is try_push(c).unwrap(): a panic when c does not fit
ArrayStringPush(s, c) ==
    LET r == try_push(s, c) IN [s |-> r.s, panicked |-> ~r.ok]

(***************************************************************************)
(* Cell                                                                    *)
(***************************************************************************)
\* mutant: the char is never pushed into the fresh buffer
CellNew_nopush(c, fg, bg) ==
    [contents |-> <<>>, bg |-> bg, fg |-> fg, flags |-> FlagsEmpty]

\* Cell::new: a fresh buffer always has room for one char
CellNew(c, fg, bg) ==
    [contents |-> ArrayStringPush(<<>>, c).s,
     bg |-> bg,
     fg |-> fg,
     flags |-> FlagsEmpty]

\* mutant: the two default colours are swapped
CellDefault_swapped == CellNew(SPACE, NamedBackground, NamedForeground)

CellDefault == CellNew(SPACE, NamedForeground, NamedBackground)

bold(self) == FlagsContains(self.flags, BOLD)

inverse(self) == FlagsContains(self.flags, INVERSE)

dim(self) == FlagsContains(self.flags, DIM)

is_empty(self) ==
    /\ (self.contents = <<SPACE>> \/ self.contents = <<TAB>>)
    /\ self.bg = NamedBackground
    /\ ~FlagsIntersects(self.flags, BitOr(BitOr(INVERSE, UNDERLINE), STRIKEOUT))

\* mutant: a partial reset that clears the glyph and colours but keeps the
\* style flags of the cell
reset_keep_style(self, template) == [template EXCEPT !.flags = self.flags]

\* *self = *template
reset(self, template) == template

as_str(self) == self.contents

\* the first 1 + MAX_ZEROWIDTH_CHARS chars, padded with ' '
chars(self) ==
    [i \in 1..(1 + MAX_ZEROWIDTH_CHARS) |->
        IF i <= Len(self.contents) THEN self.contents[i] ELSE SPACE]

push_extra(self, c) ==
    LET r == ArrayStringPush(self.contents, c)
    IN  [self |-> [self EXCEPT !.contents = r.s], panicked |-> r.panicked]

\* .chars().next().expect(..): a panic on empty contents
first_char(self) ==
    IF self.contents = <<>>
    THEN [panicked |-> TRUE, ret |-> <<>>]
    ELSE [panicked |-> FALSE, ret |-> <<Head(self.contents)>>]

\* mutant: only the base char is replaced, the combining marks stay
set_char_keep_marks(self, chr) ==
    [self |-> [self EXCEPT !.contents = <<chr>> \o Tail(self.contents)],
     ret |-> self.contents]

\* a fresh one-char buffer is swapped in and the old buffer returned
set_char(self, chr) ==
    LET contents == ArrayStringPush(<<>>, chr).s
    IN  [self |-> [self EXCEPT !.contents = contents], ret |-> self.contents]

(***************************************************************************)
(* grid::Row<Cell> and its occupied length                                 *)
(***************************************************************************)
\* Row::new(columns, &template): columns copies of the template
RowNew(columns, template) == [i \in 1..columns |-> template]

\* the index, counted from the end, of the first cell of the reversed row
\* whose contents are not " "; Len(self) when there is none
RECURSIVE RevFind(_, _)
RevFind(self, index) ==
    IF index >= Len(self) THEN Len(self)
    ELSE IF self[Len(self) - index].contents # <<SPACE>> THEN index
    ELSE RevFind(self, index + 1)

\* mutant: the length is the index of the last occupied cell, not one past it
line_length_offbyone(self) ==
    IF Len(self) = 0 THEN [panicked |-> TRUE, ret |-> <<>>]
    ELSE IF FlagsContains(self[Len(self)].flags, WRAPLINE)
         THEN [panicked |-> FALSE, ret |-> <<Len(self)>>]
    ELSE LET index == RevFind(self, 0)
         IN  [panicked |-> FALSE,
              ret |-> <<IF index < Len(self) THEN Len(self) - index - 1 ELSE 0>>]

\* mutant: the WRAPLINE flag of the last cell is not looked at
line_length_nowrap(self) ==
    IF Len(self) = 0 THEN [panicked |-> TRUE, ret |-> <<>>]
    ELSE LET index == RevFind(self, 0)
         IN  [panicked |-> FALSE,
              ret |-> <<IF index < Len(self) THEN Len(self) - index ELSE 0>>]

\* LineLength::line_length. On an empty row self.len() - 1 overflows usize:
\* a panic with overflow checks, and without them an index of usize::MAX,
\* which panics as out of bounds.
line_length(self) ==
    IF Len(self) = 0 THEN [panicked |-> TRUE, ret |-> <<>>]
    ELSE IF FlagsContains(self[Len(self)].flags, WRAPLINE)
         THEN [panicked |-> FALSE, ret |-> <<Len(self)>>]
    ELSE LET index == RevFind(self, 0)
         IN  [panicked |-> FALSE,
              ret |-> <<IF index < Len(self) THEN Len(self) - index ELSE 0>>]

(***************************************************************************)
(* Inputs and bounds                                                       *)
(***************************************************************************)
\* widest row built
MaxCols == 3

\* most combining marks pushed onto one cell of a row
MaxRowMarks == 1

\* base chars given to Cell::new and set_char: ' ', 'a', U+00E9 (2 bytes),
\* U+1F600 (4 bytes)
CharInputs == {SPACE, 97, 233, 128512}

\* chars given to push_extra: U+0301 COMBINING ACUTE ACCENT (2 bytes)
ExtraInputs == {769}

ColorInputs == {NamedForeground, NamedBackground}

\* flags inserted into and removed from a cell next to the glyph operations
CellFlagInputs == {WRAPLINE, WIDE_CHAR}

\* chars and flags written into the cells of a row
RowCharInputs == {SPACE, 97}

RowFlagInputs == {WRAPLINE}

\* the cell after n calls of push_extra(c); the calls that would panic are
\* left out
RECURSIVE PushExtras(_, _, _)
PushExtras(self, c, n) ==
    IF n = 0 \/ push_extra(self, c).panicked THEN self
    ELSE PushExtras(push_extra(self, c).self, c, n - 1)

\* the templates handed to reset: every cell that Cell::new, push_extra
\* and flag insertion build from the inputs
TemplateInputs ==
    {[PushExtras(CellNew(c, fg, bg), e, n) EXCEPT !.flags = f] :
        c \in CharInputs, fg \in ColorInputs, bg \in ColorInputs,
        e \in ExtraInputs, n \in 0..MAX_CELL_LEN,
        f \in {FlagsEmpty, WRAPLINE, WIDE_CHAR, BitOr(WRAPLINE, WIDE_CHAR)}}

(***************************************************************************)
(* State machine.  cell is one Cell, row one Row; last records the call    *)
(* that led to the state: its name, char/flag/column argument, cell index, *)
(* return value and template; panicked is set by a call that panicked,     *)
(* after which nothing runs.                                               *)
(***************************************************************************)
Call(op, arg, idx, ret, tmpl) ==
    [op |-> op, arg |-> arg, idx |-> idx, ret |-> ret, tmpl |-> tmpl]

Init ==
    /\ cell = CellDefault
    /\ row = RowNew(1, CellDefault)
    /\ last = Call("default", 0, 0, <<>>, <<>>)
    /\ panicked = FALSE

New(c, fg, bg) ==
    /\ ~panicked
    /\ cell' = CellNew(c, fg, bg)
    /\ last' = Call("new", c, 0, <<>>, <<>>)
    /\ UNCHANGED <<row, panicked>>

Default ==
    /\ ~panicked
    /\ cell' = CellDefault
    /\ last' = Call("default", 0, 0, <<>>, <<>>)
    /\ UNCHANGED <<row, panicked>>

SetChar(chr) ==
    /\ ~panicked
    /\ LET r == set_char(cell, chr)
       IN  /\ cell' = r.self
           /\ last' = Call("set_char", chr, 0, r.ret, <<>>)
    /\ UNCHANGED <<row, panicked>>

PushExtra(c) ==
    /\ ~panicked
    /\ LET r == push_extra(cell, c)
       IN  /\ cell' = r.self
           /\ panicked' = r.panicked
           /\ last' = Call("push_extra", c, 0, <<>>, <<>>)
    /\ UNCHANGED row

Reset(template) ==
    /\ ~panicked
    /\ cell' = reset(cell, template)
    /\ last' = Call("reset", 0, 0, <<>>, <<template>>)
    /\ UNCHANGED <<row, panicked>>

FirstChar ==
    /\ ~panicked
    /\ LET r == first_char(cell)
       IN  /\ panicked' = r.panicked
           /\ last' = Call("first_char", 0, 0, r.ret, <<>>)
    /\ UNCHANGED <<cell, row>>

Chars ==
    /\ ~panicked
    /\ last' = Call("chars", 0, 0, chars(cell), <<>>)
    /\ UNCHANGED <<cell, row, panicked>>

InsertFlag(f) ==
    /\ ~panicked
    /\ cell' = [cell EXCEPT !.flags = FlagsInsert(cell.flags, f)]
    /\ last' = Call("insert", f, 0, <<>>, <<>>)
    /\ UNCHANGED <<row, panicked>>

RemoveFlag(f) ==
    /\ ~panicked
    /\ cell' = [cell EXCEPT !.flags = FlagsRemove(cell.flags, f)]
    /\ last' = Call("remove", f, 0, <<>>, <<>>)
    /\ UNCHANGED <<row, panicked>>

\* the operations of one cell
Next ==
    \/ \E c \in CharInputs, fg \in ColorInputs, bg \in ColorInputs : New(c, fg, bg)
    \/ Default
    \/ \E chr \in CharInputs : SetChar(chr)
    \/ \E c \in ExtraInputs : PushExtra(c)
    \/ \E template \in TemplateInputs : Reset(template)
    \/ FirstChar
    \/ Chars
    \/ \E f \in CellFlagInputs : InsertFlag(f)
    \/ \E f \in CellFlagInputs : RemoveFlag(f)

Spec == Init /\ [][Next]_vars

\* the glyph operations of one cell: construction, set_char, push_extra and
\* the reads of the contents
NextGlyph ==
    \/ \E c \in CharInputs, fg \in ColorInputs, bg \in ColorInputs : New(c, fg, bg)
    \/ \E chr \in CharInputs : SetChar(chr)
    \/ \E c \in ExtraInputs : PushExtra(c)
    \/ FirstChar
    \/ Chars

SpecGlyph == Init /\ [][NextGlyph]_vars

\* the flag operations of one cell, over every named flag
NextFlags ==
    \/ \E f \in NamedFlags : InsertFlag(f)
    \/ \E f \in NamedFlags : RemoveFlag(f)

SpecFlags == Init /\ [][NextFlags]_vars

RowCreate(columns, template) ==
    /\ ~panicked
    /\ row' = RowNew(columns, template)
    /\ last' = Call("row_new", columns, 0, <<>>, <<template>>)
    /\ UNCHANGED <<cell, panicked>>

RowSetChar(i, chr) ==
    /\ ~panicked
    /\ i \in 1..Len(row)
    /\ LET r == set_char(row[i], chr)
       IN  /\ row' = [row EXCEPT ![i] = r.self]
           /\ last' = Call("set_char", chr, i, r.ret, <<>>)
    /\ UNCHANGED <<cell, panicked>>

RowPushExtra(i, c) ==
    /\ ~panicked
    /\ i \in 1..Len(row)
    /\ Len(row[i].contents) <= MaxRowMarks
    /\ LET r == push_extra(row[i], c)
       IN  /\ row' = [row EXCEPT ![i] = r.self]
           /\ panicked' = r.panicked
           /\ last' = Call("push_extra", c, i, <<>>, <<>>)
    /\ UNCHANGED cell

RowInsertFlag(i, f) ==
    /\ ~panicked
    /\ i \in 1..Len(row)
    /\ row' = [row EXCEPT ![i].flags = FlagsInsert(row[i].flags, f)]
    /\ last' = Call("insert", f, i, <<>>, <<>>)
    /\ UNCHANGED <<cell, panicked>>

RowRemoveFlag(i, f) ==
    /\ ~panicked
    /\ i \in 1..Len(row)
    /\ row' = [row EXCEPT ![i].flags = FlagsRemove(row[i].flags, f)]
    /\ last' = Call("remove", f, i, <<>>, <<>>)
    /\ UNCHANGED <<cell, panicked>>

LineLength ==
    /\ ~panicked
    /\ LET r == line_length(row)
       IN  /\ panicked' = r.panicked
           /\ last' = Call("line_length", 0, 0, r.ret, <<>>)
    /\ UNCHANGED <<cell, row>>

\* the operations of one row
NextRow ==
    \/ \E columns \in 0..MaxCols : RowCreate(columns, CellDefault)
    \/ \E i \in 1..MaxCols, chr \in RowCharInputs : RowSetChar(i, chr)
    \/ \E i \in 1..MaxCols, c \in ExtraInputs : RowPushExtra(i, c)
    \/ \E i \in 1..MaxCols, f \in RowFlagInputs : RowInsertFlag(i, f)
    \/ \E i \in 1..MaxCols, f \in RowFlagInputs : RowRemoveFlag(i, f)
    \/ LineLength

SpecRow == Init /\ [][NextRow]_vars

(***************************************************************************)
(* Properties                                                              *)
(***************************************************************************)
\* the position (from 1) of the last cell whose contents are not " ", 0
\* when there is none
LastNonSpace(r) ==
    LET occupied == {i \in 1..Len(r) : r[i].contents # <<SPACE>>}
    IN  IF occupied = {} THEN 0
        ELSE CHOOSE i \in occupied : \A j \in occupied : j <= i

\* the row with WRAPLINE cleared in every cell but the last
WithoutInnerWrapline(r) ==
    [i \in 1..Len(r) |->
        IF i < Len(r) THEN [r[i] EXCEPT !.flags = FlagsRemove(@, WRAPLINE)]
        ELSE r[i]]

LastCellWraps(r) == FlagsContains(r[Len(r)].flags, WRAPLINE)

\* C1: on a row of width >= 1 whose last cell lacks WRAPLINE, line_length
\* returns one past the last cell whose contents are not " ", 0 when every
\* cell is " ", and WRAPLINE on the other cells does not change the result.
C1_LineLengthLastNonSpace ==
    (last.op = "line_length" /\ Len(row) >= 1 /\ ~LastCellWraps(row)) =>
        /\ ~panicked
        /\ last.ret = <<LastNonSpace(row)>>
        /\ last.ret = line_length(WithoutInnerWrapline(row)).ret

\* line_length has returned 2 on a row of three cells whose first cell has
\* WRAPLINE and whose last cell is a bare space
C1_Witness ==
    /\ last.op = "line_length"
    /\ Len(row) = 3
    /\ ~LastCellWraps(row)
    /\ FlagsContains(row[1].flags, WRAPLINE)
    /\ row[3].contents = <<SPACE>>
    /\ last.ret = <<2>>

\* C2: on a row of width >= 1 whose last cell has WRAPLINE, line_length
\* returns the full width whatever the cells hold.
C2_LineLengthWrapline ==
    (last.op = "line_length" /\ Len(row) >= 1 /\ LastCellWraps(row)) =>
        /\ ~panicked
        /\ last.ret = <<Len(row)>>

\* line_length has returned 3 on a row of three bare spaces whose last cell
\* has WRAPLINE
C2_Witness ==
    /\ last.op = "line_length"
    /\ Len(row) = 3
    /\ LastCellWraps(row)
    /\ \A i \in 1..3 : row[i].contents = <<SPACE>>
    /\ last.ret = <<3>>

\* C3: push_extra(c) on a cell whose buffer has no room left for c completes
\* normally, discards c and leaves the cell unchanged; it never panics.
C3_PushExtraOverflowTruncates ==
    [][(last'.op = "push_extra"
          /\ ByteLen(cell.contents) + len_utf8(last'.arg) > MAX_CELL_LEN) =>
        (~panicked' /\ cell' = cell)]_vars

\* C4: a cell stores at most 1 + MAX_ZEROWIDTH_CHARS characters.
C4_AtMostSixChars == Len(cell.contents) <= 1 + MAX_ZEROWIDTH_CHARS

\* C5: after reset(template) the cell equals the template in fg, bg, flags
\* and contents, and a second reset from the same template changes nothing.
C5_ResetFullOverwrite ==
    last.op = "reset" =>
        LET template == last.tmpl[1]
        IN  /\ cell.fg = template.fg
            /\ cell.bg = template.bg
            /\ cell.flags = template.flags
            /\ cell.contents = template.contents
            /\ reset(cell, template) = cell

\* a reset has brought in a template with WRAPLINE, WIDE_CHAR and combining
\* marks
C5_Witness ==
    /\ last.op = "reset"
    /\ FlagsContains(cell.flags, BitOr(WRAPLINE, WIDE_CHAR))
    /\ Len(cell.contents) >= 3
    /\ cell.fg = NamedBackground

\* C6: the default cell is the single space with fg Foreground, bg
\* Background and no flags; it satisfies is_empty, and a row built from it
\* has line_length 0.
C6_DefaultCell ==
    /\ CellDefault =
          [contents |-> <<SPACE>>, fg |-> NamedForeground,
           bg |-> NamedBackground, flags |-> FlagsEmpty]
    /\ is_empty(CellDefault)
    /\ (last.op = "default" => cell = CellDefault)
    /\ (last.op = "row_new" /\ last.tmpl = <<CellDefault>> /\ Len(row) >= 1) =>
          line_length(row) = [panicked |-> FALSE, ret |-> <<0>>]

\* a row of three cells has just been built from the default cell
C6_Witness ==
    /\ last.op = "row_new"
    /\ last.tmpl = <<CellDefault>>
    /\ Len(row) = 3
    /\ \A i \in 1..3 : is_empty(row[i])

\* C7: line_length returns a column for every row, 0 for a row of width 0,
\* and never panics.
C7_LineLengthTotal ==
    last.op = "line_length" =>
        /\ ~panicked
        /\ (Len(row) = 0 => last.ret = <<0>>)

\* C8: the ten single flags occupy pairwise distinct bits, so inserting or
\* removing one leaves the membership of every other as it was, and a flag
\* set contains DIM_BOLD exactly when it contains both BOLD and DIM.
C8_FlagsIndependent ==
    [][/\ Cardinality(SingleFlags) = 10
       /\ \A f, g \in SingleFlags : f # g => BitAnd(f, g) = 0
       /\ FlagsContains(cell'.flags, DIM_BOLD) <=> (bold(cell') /\ dim(cell'))
       /\ (last'.op = "insert" /\ last'.arg \in SingleFlags) =>
             /\ FlagsContains(cell'.flags, last'.arg)
             /\ \A g \in SingleFlags \ {last'.arg} :
                   FlagsContains(cell'.flags, g) <=> FlagsContains(cell.flags, g)
       /\ (last'.op = "remove" /\ last'.arg \in SingleFlags) =>
             /\ ~FlagsContains(cell'.flags, last'.arg)
             /\ \A g \in SingleFlags \ {last'.arg} :
                   FlagsContains(cell'.flags, g) <=> FlagsContains(cell.flags, g)
      ]_vars

\* BOLD has just been removed from a cell that keeps DIM and eight other
\* flags, so that it no longer contains DIM_BOLD
C8_Witness ==
    /\ last.op = "remove"
    /\ last.arg = BOLD
    /\ \A g \in SingleFlags \ {BOLD} : FlagsContains(cell.flags, g)
    /\ ~FlagsContains(cell.flags, DIM_BOLD)

\* C9: the contents of a cell are never empty, so first_char never panics
\* and returns the base character: the char given to Cell::new or set_char,
\* the base character of the template after reset, and push_extra leaves it
\* as it was.
C9_NeverEmpty ==
    /\ Len(cell.contents) >= 1
    /\ [][/\ Len(cell'.contents) >= 1
          /\ ~first_char(cell').panicked
          /\ last'.op \in {"new", "set_char"} =>
                first_char(cell').ret = <<last'.arg>>
          /\ last'.op = "reset" =>
                first_char(cell').ret = first_char(last'.tmpl[1]).ret
          /\ last'.op = "push_extra" => first_char(cell') = first_char(cell)
          /\ last'.op = "first_char" =>
                (~panicked' /\ last'.ret = first_char(cell).ret)
         ]_vars

\* first_char has returned the base character of a cell that holds it and
\* eleven combining marks
C9_Witness ==
    /\ last.op = "first_char"
    /\ ~panicked
    /\ Len(cell.contents) = 12
    /\ last.ret = <<97>>

\* C10: set_char(chr) leaves exactly the one char chr in the cell, dropping
\* the combining marks, returns the contents the cell had before, and leaves
\* fg, bg and flags as they were.
C10_SetCharReplaces ==
    [][last'.op = "set_char" =>
        /\ cell'.contents = <<last'.arg>>
        /\ last'.ret = cell.contents
        /\ cell'.fg = cell.fg
        /\ cell'.bg = cell.bg
        /\ cell'.flags = cell.flags
      ]_vars

\* set_char has replaced a glyph with combining marks in a flagged cell and
\* returned the old glyph
C10_Witness ==
    /\ last.op = "set_char"
    /\ Len(last.ret) >= 3
    /\ last.ret[1] # last.arg
    /\ cell.contents = <<last.arg>>
    /\ FlagsContains(cell.flags, WIDE_CHAR)

====
